---- MODULE Spec2Model ----
(***************************************************************************)
(* Route construction of the sensor network simulator (senere).            *)
(*                                                                         *)
(* The module models the two route builders of senere/routing.py           *)
(* (build_static_routes, build_routes) one loop iteration at a time, the   *)
(* routing table they fill, the Network object, its devices and the        *)
(* RoutingManager of senere/network.py, and the failure handling of        *)
(* ModelData in senere/simulation.py.                                      *)
(***************************************************************************)
EXTENDS Integers, Sequences, FiniteSets, TLC

\* Number of nodes of the topologies with fixed connections; addresses are
\* 1..NumNodes and the topology holds its nodes in that order.
NumNodes == 3

\* Number of nodes of the topologies with radio links.
NumRadioNodes == 4

\* How many times in a row the table is built from the same inputs.
MaxBuilds == 2

\* Number of addresses the records handed to the RoutingManager draw on.
NumAddr == 2

\* The longest delay an interval provider returns.
MaxInterval == 2

SENSOR_NODE == "sensor"
GATEWAY_NODE == "gateway"

\* Python's None, for an address.
None == 0

\* numpy's inf, for a distance; compared with Less only.
Inf == -1

NOT_VISITED == "not visited"
QUEUED == "queued"
VISITED == "visited"

STATIC == "static"
DYNAMIC == "dynamic"

VARIABLES
    ntype,        \* topology: address -> node type
    connections,  \* topology: the fixed connections <<from, to>>, in dict order
    links,        \* topology: the radio-range neighbour relation, as 2-element sets
    exclude,      \* the exclusion set handed to the route builder
    mode,         \* which route builder runs
    pc,           \* position of the build
    run,          \* the running builder's local variables
    table,        \* the routing table: source -> RouteRecord
    prevTable,    \* the table before the last build or RoutingManager call
    builds,       \* number of builds completed
    turned_on,    \* Network.devices: address -> the device is on
    net_next_hop, \* Network.next_hop
    net_graph,    \* Network.graph: the edges <<from, to>>
    net_distance, \* Network.distance
    err,          \* the exception the last Network call raised, or "none"
    lastOff,      \* the sensor named by the last turn_off, None after a turn_on
    call,         \* the last RoutingManager call: its name and argument
    ret,          \* what that call returned
    failed_nodes,            \* ModelData.failed_nodes
    repair_started,          \* ModelData.repair_started
    num_offline_till_repair, \* sim.params.num_offline_till_repair
    events,       \* the simulator's pending events, in the order they fire
    stime,        \* sim.stime
    num_failed,   \* ModelData.num_failed: the records <<time, value>>
    num_offline,  \* ModelData.num_offline
    operable,     \* ModelData.operable
    fired         \* the event whose handler ran last

topo == <<ntype, connections, links>>

netVars == <<turned_on, net_next_hop, net_graph, net_distance, err, lastOff>>

mgrVars == <<call, ret>>

simVars == <<failed_nodes, repair_started, num_offline_till_repair, events, stime,
             num_failed, num_offline, operable, fired>>

vars == <<ntype, connections, links, exclude, mode, pc, run, table, prevTable, builds,
          netVars, mgrVars, simVars>>

\* the addresses of the topology
Nodes == DOMAIN ntype

NodeCount == Cardinality(Nodes)

----------------------------------------------------------------------------
\* Sequence helpers.

RECURSIVE SeqOfSet(_)
\* the elements of a set of addresses, in ascending order
SeqOfSet(S) ==
    IF S = {} THEN <<>>
    ELSE LET m == CHOOSE x \in S : \A y \in S : x <= y
         IN <<m>> \o SeqOfSet(S \ {m})

Range(s) == {s[i] : i \in 1..Len(s)}

\* the comparison the other way round: a > b
Greater(a, b) == b # Inf /\ (a = Inf \/ b < a)

\* a < b for distances, where Inf is above every number
Less(a, b) == a # Inf /\ (b = Inf \/ a < b)

\* PlusOne with the increment lost
PlusOneSame(d) == d

\* d + 1 for distances: inf + 1 is inf
PlusOne(d) == IF d = Inf THEN Inf ELSE d + 1

----------------------------------------------------------------------------
\* Topology.

\* nodes.values(['address', 'type']): the nodes in topology order
NodeSeq == [i \in 1..NodeCount |-> i]

\* Topology.neighbours(): address -> list of neighbours, each list in
\* topology order (the double loop appends the earlier nodes first).
Neighbours ==
    [a \in Nodes |-> SelectSeq(NodeSeq, LAMBDA b : b # a /\ {a, b} \in links)]

\* RouteRecord with the first two fields in the other order
RouteRecordSwapped(source, next_hop, gateway, distance, static) ==
    [source |-> next_hop, next_hop |-> source, gateway |-> gateway,
     distance |-> distance, static |-> static]

RouteRecord(source, next_hop, gateway, distance, static) ==
    [source |-> source, next_hop |-> next_hop, gateway |-> gateway,
     distance |-> distance, static |-> static]

----------------------------------------------------------------------------
\* build_static_routes

\* nodes after "Filter excluded nodes"
Kept(excl) == SelectSeq(NodeSeq, LAMBDA n : n \notin excl)

\* GatewaysOf without the test of the node type
GatewaysOfAnyType(excl) == Kept(excl)

GatewaysOf(excl) == SelectSeq(Kept(excl), LAMBDA n : ntype[n] = GATEWAY_NODE)

\* Precursors without the test of the exclusion set (build_static_routes of
\* network.py)
PrecursorsUnfiltered(excl) ==
    [n \in Nodes |->
        LET from == SelectSeq(connections, LAMBDA c : c[2] = n)
        IN [i \in 1..Len(from) |-> from[i][1]]]

\* Precursors filled in the wrong direction: precursors[from_addr].append(to_addr)
PrecursorsSwapped(excl) ==
    [n \in Range(Kept(excl)) |->
        LET to == SelectSeq(connections,
                        LAMBDA c : c[1] = n /\ c[1] \notin excl /\ c[2] \notin excl)
        IN [i \in 1..Len(to) |-> to[i][2]]]

\* precursors: node -> [nodes using this node as next hop], in connection order
Precursors(excl) ==
    [n \in Range(Kept(excl)) |->
        LET from == SelectSeq(connections,
                        LAMBDA c : c[2] = n /\ c[1] \notin excl /\ c[2] \notin excl)
        IN [i \in 1..Len(from) |-> from[i][1]]]

\* the state before the while loop
StaticStart(excl) ==
    LET gateways == GatewaysOf(excl)
    IN [visiting |-> [i \in 1..Len(gateways) |-> <<gateways[i], gateways[i], 0>>],
        routes |-> <<>>,
        gateway_dict |-> [n \in Range(Kept(excl)) |->
                            IF ntype[n] = GATEWAY_NODE THEN n ELSE None]]

\* one iteration of "while visiting"
StaticIter(st, excl) ==
    LET curr_node == st.visiting[1][1]
        next_hop == st.visiting[1][2]
        dist == st.visiting[1][3]
        gw == st.gateway_dict[next_hop]
        prec == Precursors(excl)[curr_node]
    IN [visiting |-> Tail(st.visiting) \o
                        [i \in 1..Len(prec) |-> <<prec[i], curr_node, dist + 1>>],
        routes |-> Append(st.routes, RouteRecord(curr_node, next_hop, gw, dist, TRUE)),
        gateway_dict |-> [st.gateway_dict EXCEPT ![curr_node] = gw]]

----------------------------------------------------------------------------
\* build_routes

\* "del neighbourhood[node_a]" after removing node_a from its neighbours' lists
RemoveNode(nb, node_a) ==
    [node_b \in DOMAIN nb \ {node_a} |->
        IF node_b \in Range(nb[node_a])
        THEN SelectSeq(nb[node_b], LAMBDA x : x # node_a)
        ELSE nb[node_b]]

RECURSIVE RemoveAll(_, _)
RemoveAll(nb, excl) ==
    IF excl = <<>> THEN nb ELSE RemoveAll(RemoveNode(nb, Head(excl)), Tail(excl))

\* the neighbourhood without the excluded stations
Neighbourhood(excl) == RemoveAll(Neighbours, SeqOfSet(excl))

RECURSIVE EnqueueUnvisited(_, _)
\* "for v in neighbourhood[gw]: if mark[v] == NOT_VISITED: ..."
EnqueueUnvisited(st, vs) ==
    IF vs = <<>> THEN st
    ELSE LET v == Head(vs)
         IN IF st.mark[v] = NOT_VISITED
            THEN EnqueueUnvisited([st EXCEPT !.queue = Append(@, v),
                                             !.mark[v] = QUEUED], Tail(vs))
            ELSE EnqueueUnvisited(st, Tail(vs))

\* one iteration of "for gw in gateways"
DynGateway(st, gw) ==
    LET s1 == [st EXCEPT !.routes = Append(@, RouteRecord(gw, gw, gw, 0, TRUE))]
        s2 == EnqueueUnvisited(s1, s1.neighbourhood[gw])
    IN [s2 EXCEPT !.gw_map[gw] = gw, !.distance[gw] = 0, !.mark[gw] = VISITED]

RECURSIVE DynGateways(_, _)
DynGateways(st, gws) ==
    IF gws = <<>> THEN st ELSE DynGateways(DynGateway(st, Head(gws)), Tail(gws))

\* DynStart with the marks of the previous call kept (mark not re-created)
DynStartStaleMark(excl) ==
    LET kept == Range(Kept(excl))
    IN DynGateways(
        [neighbourhood |-> Neighbourhood(excl),
         mark |-> IF "mark" \in DOMAIN run
                  THEN run.mark
                  ELSE [n \in kept |->
                          IF ntype[n] = SENSOR_NODE THEN NOT_VISITED ELSE QUEUED],
         distance |-> [n \in kept |-> Inf],
         gw_map |-> [n \in kept |-> None],
         queue |-> <<>>,
         routes |-> <<>>],
        GatewaysOf(excl))

\* the state before the while loop
DynStart(excl) ==
    LET kept == Range(Kept(excl))
    IN DynGateways(
        [neighbourhood |-> Neighbourhood(excl),
         mark |-> [n \in kept |-> IF ntype[n] = SENSOR_NODE THEN NOT_VISITED ELSE QUEUED],
         distance |-> [n \in kept |-> Inf],
         gw_map |-> [n \in kept |-> None],
         queue |-> <<>>,
         routes |-> <<>>],
        GatewaysOf(excl))

RECURSIVE ScanNeighboursNoEnqueue(_, _, _)
\* ScanNeighbours that leaves the unvisited neighbours out of the queue
ScanNeighboursNoEnqueue(st, vs, next_hop) ==
    IF vs = <<>> THEN [st |-> st, next_hop |-> next_hop]
    ELSE LET v == Head(vs)
         IN IF st.mark[v] = NOT_VISITED
            THEN ScanNeighboursNoEnqueue(st, Tail(vs), next_hop)
            ELSE IF next_hop = None \/ Less(st.distance[v], st.distance[next_hop])
                 THEN ScanNeighboursNoEnqueue(st, Tail(vs), v)
                 ELSE ScanNeighboursNoEnqueue(st, Tail(vs), next_hop)

RECURSIVE ScanNeighboursFirstSeen(_, _, _)
\* ScanNeighbours that keeps the first neighbour found queued or visited,
\* without the comparison of the distances
ScanNeighboursFirstSeen(st, vs, next_hop) ==
    IF vs = <<>> THEN [st |-> st, next_hop |-> next_hop]
    ELSE LET v == Head(vs)
         IN IF st.mark[v] = NOT_VISITED
            THEN ScanNeighboursFirstSeen([st EXCEPT !.queue = Append(@, v),
                                                    !.mark[v] = QUEUED],
                                         Tail(vs), next_hop)
            ELSE IF next_hop = None
                 THEN ScanNeighboursFirstSeen(st, Tail(vs), v)
                 ELSE ScanNeighboursFirstSeen(st, Tail(vs), next_hop)

RECURSIVE ScanNeighbours(_, _, _)
\* "for v in neighbourhood[node]": the state and the next hop chosen
ScanNeighbours(st, vs, next_hop) ==
    IF vs = <<>> THEN [st |-> st, next_hop |-> next_hop]
    ELSE LET v == Head(vs)
         IN IF st.mark[v] = NOT_VISITED
            THEN ScanNeighbours([st EXCEPT !.queue = Append(@, v),
                                           !.mark[v] = QUEUED], Tail(vs), next_hop)
            ELSE IF next_hop = None \/ Less(st.distance[v], st.distance[next_hop])
                 THEN ScanNeighbours(st, Tail(vs), v)
                 ELSE ScanNeighbours(st, Tail(vs), next_hop)

\* one iteration of "while queue"
DynIter(st) ==
    LET node == Head(st.queue)
        popped == [st EXCEPT !.queue = Tail(@)]
        scan == ScanNeighbours(popped, popped.neighbourhood[node], None)
        s1 == scan.st
        next_hop == scan.next_hop
        routed ==
            IF next_hop # None
            THEN LET d == PlusOne(s1.distance[next_hop])
                     gw == s1.gw_map[next_hop]
                 IN [s1 EXCEPT !.gw_map[node] = gw,
                               !.distance[node] = d,
                               !.routes = Append(@, RouteRecord(node, next_hop, gw, d, FALSE))]
            ELSE s1
    IN [routed EXCEPT !.mark[node] = VISITED]

----------------------------------------------------------------------------
\* The routing table.

\* add that files the record under its next hop
TableAddByNextHop(t, rec) ==
    [a \in DOMAIN t \cup {rec.next_hop} |-> IF a = rec.next_hop THEN rec ELSE t[a]]

\* add that keeps the record the source already has
TableAddKeepFirst(t, rec) ==
    [a \in DOMAIN t \cup {rec.source} |-> IF a \in DOMAIN t THEN t[a] ELSE rec]

\* RoutingManager.add: upsert by source
TableAdd(t, rec) ==
    [a \in DOMAIN t \cup {rec.source} |-> IF a = rec.source THEN rec ELSE t[a]]

EmptyTable == [a \in {} |-> None]

RECURSIVE AddAll(_, _)
AddAll(t, routes) ==
    IF routes = <<>> THEN t ELSE AddAll(TableAdd(t, Head(routes)), Tail(routes))

\* build_routing_table: the table is replaced by the builder's route set
BuildTable(routes) == AddAll(EmptyTable, routes)

----------------------------------------------------------------------------
\* The build as a state machine.

\* no RoutingManager call has been made
NoCall ==
    /\ call = [op |-> "none"]
    /\ ret = None

\* no ModelData has been constructed
NoModelData ==
    /\ failed_nodes = <<>>
    /\ repair_started = FALSE
    /\ num_offline_till_repair = 0
    /\ events = <<>>
    /\ stime = 0
    /\ num_failed = <<>>
    /\ num_offline = <<>>
    /\ operable = <<>>
    /\ fired = [handler |-> "none"]

\* every list of connections in which each node has at most one outgoing
\* connection (Topology._connections is a dict keyed by the from address)
RECURSIVE ConnLists(_)
ConnLists(froms) ==
    {<<>>} \cup
    UNION {{<<<<f, t>>>> \o s : t \in Nodes, s \in ConnLists(froms \ {f})} : f \in froms}

\* The connection lists explored.  The list is read one target at a time
\* (precursors[to_addr].append(from_addr)), so only the order among the
\* connections into the same node matters: one list per such order is kept,
\* the one that groups the connections by target.
ConnSeqs ==
    {s \in ConnLists(Nodes) : \A i \in 1..Len(s), j \in 1..Len(s) :
        i < j => s[i][2] <= s[j][2]}

Pairs == {{a, b} : a \in Nodes, b \in Nodes} \ {{a} : a \in Nodes}

Init ==
    /\ mode \in {STATIC, DYNAMIC}
    /\ ntype \in [1..(IF mode = STATIC THEN NumNodes ELSE NumRadioNodes) ->
                    {SENSOR_NODE, GATEWAY_NODE}]
    /\ exclude \in SUBSET Nodes
    /\ IF mode = STATIC
       THEN connections \in ConnSeqs /\ links = {}
       ELSE connections = <<>> /\ links \in SUBSET Pairs
    /\ pc = "start"
    /\ run = [routes |-> <<>>]
    /\ table = EmptyTable
    /\ prevTable = EmptyTable
    /\ builds = 0
    /\ turned_on = [n \in Nodes |-> TRUE]
    /\ net_next_hop = EmptyTable
    /\ net_graph = {}
    /\ net_distance = EmptyTable
    /\ err = "none"
    /\ lastOff = None
    /\ NoCall
    /\ NoModelData

StartStatic ==
    /\ pc = "start"
    /\ mode = STATIC
    /\ run' = StaticStart(exclude)
    /\ pc' = "static"
    /\ UNCHANGED <<topo, exclude, mode, table, prevTable, builds, netVars>>
    /\ UNCHANGED <<mgrVars, simVars>>

StaticStep ==
    /\ pc = "static"
    /\ run.visiting # <<>>
    /\ run.visiting[1][3] < NodeCount
    /\ run' = StaticIter(run, exclude)
    /\ UNCHANGED <<topo, exclude, mode, pc, table, prevTable, builds, netVars>>
    /\ UNCHANGED <<mgrVars, simVars>>

StaticReturn ==
    /\ pc = "static"
    /\ run.visiting = <<>>
    /\ prevTable' = table
    /\ table' = BuildTable(run.routes)
    /\ builds' = builds + 1
    /\ pc' = "done"
    /\ UNCHANGED <<topo, exclude, mode, run, netVars>>
    /\ UNCHANGED <<mgrVars, simVars>>

StartDynamic ==
    /\ pc = "start"
    /\ mode = DYNAMIC
    /\ run' = DynStart(exclude)
    /\ pc' = "dynamic"
    /\ UNCHANGED <<topo, exclude, mode, table, prevTable, builds, netVars>>
    /\ UNCHANGED <<mgrVars, simVars>>

DynStep ==
    /\ pc = "dynamic"
    /\ run.queue # <<>>
    /\ run' = DynIter(run)
    /\ UNCHANGED <<topo, exclude, mode, pc, table, prevTable, builds, netVars>>
    /\ UNCHANGED <<mgrVars, simVars>>

DynReturn ==
    /\ pc = "dynamic"
    /\ run.queue = <<>>
    /\ prevTable' = table
    /\ table' = BuildTable(run.routes)
    /\ builds' = builds + 1
    /\ pc' = "done"
    /\ UNCHANGED <<topo, exclude, mode, run, netVars>>
    /\ UNCHANGED <<mgrVars, simVars>>

Rebuild ==
    /\ pc = "done"
    /\ builds < MaxBuilds
    /\ pc' = "start"
    /\ UNCHANGED <<topo, exclude, mode, run, table, prevTable, builds, netVars>>
    /\ UNCHANGED <<mgrVars, simVars>>

Next ==
    \/ StartStatic
    \/ StaticStep
    \/ StaticReturn
    \/ StartDynamic
    \/ DynStep
    \/ DynReturn

\* one build of the table
Spec == Init /\ [][Next]_vars

NextAgain ==
    \/ Next
    \/ Rebuild

\* builds of the table in a row, from the same inputs
SpecAgain == Init /\ [][NextAgain]_vars

----------------------------------------------------------------------------
\* The route builders run to their return.

RECURSIVE RunStatic(_, _)
\* build_static_routes from its while loop on; the state is returned with a
\* non-empty visiting queue when the loop does not end
RunStatic(st, excl) ==
    IF st.visiting = <<>> \/ st.visiting[1][3] >= NodeCount
    THEN st
    ELSE RunStatic(StaticIter(st, excl), excl)

RECURSIVE RunDynamic(_)
\* build_routes from its while loop on
RunDynamic(st) ==
    IF st.queue = <<>> THEN st ELSE RunDynamic(DynIter(st))

----------------------------------------------------------------------------
\* Network (senere/network.py).

\* sensors() without the isinstance test: every device
SensorsOfAnyType == Nodes

\* Network.sensors()
Sensors == {a \in Nodes : ntype[a] = SENSOR_NODE}

Gateways == {a \in Nodes : ntype[a] = GATEWAY_NODE}

RECURSIVE PathLength(_, _, _, _)
\* the length of the shortest path of g from d to the nodes of S, k steps
\* having been taken already; Inf when there is none
PathLength(g, d, S, k) ==
    IF d \in S THEN k
    ELSE LET more == S \cup {e[1] : e \in {x \in g : x[2] \in S}}
         IN IF more = S THEN Inf ELSE PathLength(g, d, more, k + 1)

\* Network._update_distances: the hops to the nearest gateway
UpdateDistances(g) ==
    [d \in Nodes |-> IF Gateways = {} THEN Inf ELSE PathLength(g, d, Gateways, 0)]

RECURSIVE ConnectLoop(_, _, _)
\* "for conn in connections" of Network.connect
ConnectLoop(conns, nh, g) ==
    IF conns = <<>> THEN [next_hop |-> nh, graph |-> g]
    ELSE LET conn == Head(conns)
         IN IF turned_on'[conn[1]] /\ turned_on'[conn[2]]
            THEN ConnectLoop(Tail(conns),
                    [a \in DOMAIN nh \cup {conn[1]} |->
                        IF a = conn[1] THEN conn[2] ELSE nh[a]],
                    g \cup {conn})
            ELSE ConnectLoop(Tail(conns), nh, g)

\* Network.connect, run with the device flags of the next state
Connected ==
    IF connections # <<>>
    THEN LET c == ConnectLoop(connections, net_next_hop, net_graph)
         IN /\ net_next_hop' = c.next_hop
            /\ net_graph' = c.graph
            /\ net_distance' = UpdateDistances(c.graph)
    ELSE UNCHANGED <<net_next_hop, net_graph, net_distance>>

\* get_offline_nodes: the addresses whose distance is inf
GetOfflineNodes == {a \in DOMAIN net_distance : net_distance[a] = Inf}

\* the addresses of the devices that are off
OffDevices == {a \in Nodes : ~turned_on[a]}

NetInit ==
    /\ mode \in {STATIC, DYNAMIC}
    /\ ntype \in [1..NumNodes -> {SENSOR_NODE, GATEWAY_NODE}]
    /\ connections \in ConnSeqs
    /\ links \in (IF mode = STATIC THEN {{}} ELSE SUBSET Pairs)
    /\ exclude = {}
    /\ pc = "new"
    /\ run = [routes |-> <<>>]
    /\ table = EmptyTable
    /\ prevTable = EmptyTable
    /\ builds = 0
    /\ turned_on = [n \in Nodes |-> TRUE]
    /\ net_next_hop = EmptyTable
    /\ net_graph = {}
    /\ net_distance = EmptyTable
    /\ err = "none"
    /\ lastOff = None
    /\ NoCall
    /\ NoModelData

Connect ==
    /\ pc # "hung"
    /\ turned_on' = turned_on
    /\ Connected
    /\ err' = "none"
    /\ UNCHANGED <<topo, exclude, mode, pc, run, table, prevTable, builds, lastOff>>
    /\ UNCHANGED <<mgrVars, simVars>>

\* a device that is taken for a sensor whatever its node type
DeviceCanTurnAny(address) == TRUE

\* the device has turn_on and turn_off: a Sensor has, a Gateway has not
DeviceCanTurn(address) == ntype[address] = SENSOR_NODE

\* the body of Network.turn_off(address); the lookup next_hop[address] raises
\* KeyError for an address that connect never entered, and the call of
\* turn_off on a Gateway raises AttributeError
TurnedOff(address) ==
    LET precursors == {fa \in DOMAIN net_next_hop : net_next_hop[fa] = address}
        nh1 == [fa \in DOMAIN net_next_hop |->
                   IF fa \in precursors THEN None ELSE net_next_hop[fa]]
        g1 == net_graph \ {<<fa, address>> : fa \in precursors}
    IN IF address \notin DOMAIN nh1
       THEN /\ net_next_hop' = nh1
            /\ net_graph' = g1
            /\ err' = "KeyError"
            /\ UNCHANGED <<turned_on, net_distance>>
       ELSE LET g2 == IF nh1[address] # None
                      THEN g1 \ {<<address, nh1[address]>>}
                      ELSE g1
            IN /\ net_next_hop' = [nh1 EXCEPT ![address] = None]
               /\ net_graph' = g2
               /\ IF DeviceCanTurn(address)
                  THEN /\ turned_on' = [turned_on EXCEPT ![address] = FALSE]
                       /\ net_distance' = UpdateDistances(g2)
                       /\ err' = "none"
                  ELSE /\ err' = "AttributeError"
                       /\ UNCHANGED <<turned_on, net_distance>>

\* Network.turn_off(address)
TurnOff(address) ==
    /\ pc # "hung"
    /\ address \in Nodes
    /\ TurnedOff(address)
    /\ lastOff' = IF address \in Sensors THEN address ELSE None
    /\ pc' = "changed"
    /\ UNCHANGED <<topo, exclude, mode, run, table, prevTable, builds>>
    /\ UNCHANGED <<mgrVars, simVars>>

\* the body of Network.turn_on(target), target one address or a collection of
\* addresses; a Gateway among them raises AttributeError after the sensors
\* iterated before it have been turned on, and connect is not reached
TurnedOn(target) ==
    IF \A a \in target : DeviceCanTurn(a)
    THEN /\ turned_on' = [a \in Nodes |-> a \in target \/ turned_on[a]]
         /\ Connected
         /\ err' = "none"
    ELSE /\ \E before \in SUBSET {a \in target : DeviceCanTurn(a)} :
               turned_on' = [a \in Nodes |-> a \in before \/ turned_on[a]]
         /\ err' = "AttributeError"
         /\ UNCHANGED <<net_next_hop, net_graph, net_distance>>

\* Network.turn_on(target)
TurnOn(target) ==
    /\ pc # "hung"
    /\ target # {}
    /\ target \subseteq Nodes
    /\ TurnedOn(target)
    /\ lastOff' = None
    /\ pc' = "changed"
    /\ UNCHANGED <<topo, exclude, mode, run, table, prevTable, builds>>
    /\ UNCHANGED <<mgrVars, simVars>>

\* the table build_routing_table(mode) makes when the devices of off are off,
\* or hung when the static builder does not return
RoutingTableFor(off) ==
    LET final == IF mode = STATIC
                 THEN RunStatic(StaticStart(off), off)
                 ELSE RunDynamic(DynStart(off))
    IN IF mode = STATIC /\ final.visiting # <<>>
       THEN [hung |-> TRUE, table |-> table]
       ELSE [hung |-> FALSE, table |-> BuildTable(final.routes)]

\* Network.build_routing_table(mode): the table is replaced by the routes
\* built with the devices that are off excluded
BuildRoutingTable ==
    /\ pc # "hung"
    /\ LET built == RoutingTableFor(OffDevices)
       IN IF built.hung
          THEN pc' = "hung" /\ table' = table
          ELSE pc' = "done" /\ table' = built.table
    /\ err' = "none"
    /\ UNCHANGED <<topo, mode, exclude, run, prevTable, builds,
                   turned_on, net_next_hop, net_graph, net_distance, lastOff>>
    /\ UNCHANGED <<mgrVars, simVars>>

NetNext ==
    \/ Connect
    \/ \E address \in Nodes : TurnOff(address)
    \/ \E target \in SUBSET Nodes : TurnOn(target)
    \/ BuildRoutingTable

\* a Network object and the calls made on it
NetSpec == NetInit /\ [][NetNext]_vars

CascadeNext ==
    \/ Connect
    \/ \E address \in Sensors : TurnOff(address)
    \/ \E target \in SUBSET Sensors : TurnOn(target)

\* a Network object on which only sensors are turned off and on
CascadeSpec == NetInit /\ [][CascadeNext]_vars

----------------------------------------------------------------------------
\* The devices of a Network, built from the nodes of a topology.

\* a node type that is neither SENSOR_NODE nor GATEWAY_NODE
UNKNOWN_NODE == "unknown"

\* create_device that takes every node that is not a gateway for a sensor
CreateDeviceLenient(type) ==
    IF type = GATEWAY_NODE
    THEN [err |-> "none", device |-> "Gateway"]
    ELSE [err |-> "none", device |-> "Sensor"]

\* create_device(node)
CreateDevice(type) ==
    IF type = GATEWAY_NODE THEN [err |-> "none", device |-> "Gateway"]
    ELSE IF type = SENSOR_NODE THEN [err |-> "none", device |-> "Sensor"]
    ELSE [err |-> "ValueError", device |-> "none"]

RECURSIVE CreateDevices(_, _)
\* the dict comprehension of Network.__init__ over the nodes left, devices
\* being the entries made so far; an exception ends it without a dict
CreateDevices(nodes, devices) ==
    IF nodes = <<>> THEN [err |-> "none", devices |-> devices]
    ELSE LET d == CreateDevice(ntype[Head(nodes)])
         IN IF d.err # "none"
            THEN [err |-> d.err, devices |-> << >>]
            ELSE CreateDevices(Tail(nodes),
                    [a \in DOMAIN devices \cup {Head(nodes)} |->
                        IF a = Head(nodes) THEN d.device ELSE devices[a]])

\* a topology, whose nodes have any type, and no Network yet
TopologyInit ==
    /\ mode \in {STATIC, DYNAMIC}
    /\ ntype \in [1..NumNodes -> {SENSOR_NODE, GATEWAY_NODE, UNKNOWN_NODE}]
    /\ connections \in ConnSeqs
    /\ links = {}
    /\ exclude = {}
    /\ pc = "topology"
    /\ run = [devices |-> << >>]
    /\ table = EmptyTable
    /\ prevTable = EmptyTable
    /\ builds = 0
    /\ turned_on = << >>
    /\ net_next_hop = EmptyTable
    /\ net_graph = {}
    /\ net_distance = EmptyTable
    /\ err = "none"
    /\ lastOff = None
    /\ NoCall
    /\ NoModelData

\* Network(topology): Network.__init__
NewNetwork ==
    /\ pc = "topology"
    /\ LET made == CreateDevices(NodeSeq, << >>)
       IN IF made.err # "none"
          THEN /\ err' = made.err
               /\ pc' = "failed"
               /\ UNCHANGED <<run, turned_on>>
          ELSE /\ err' = "none"
               /\ pc' = "new"
               /\ run' = [devices |-> made.devices]
               /\ turned_on' = [a \in DOMAIN made.devices |-> TRUE]
    /\ UNCHANGED <<topo, exclude, mode, table, prevTable, builds, net_next_hop,
                   net_graph, net_distance, lastOff, mgrVars, simVars>>

\* the construction of a Network
NewSpec == TopologyInit /\ [][NewNetwork]_vars

----------------------------------------------------------------------------
\* ModelData (senere/simulation.py): the failure and repair handlers, and the
\* simulator that fires the scheduled events in the order of their times,
\* events of one time in the order they were scheduled.

\* what failure_interval(), repair_interval() and cons_repair_interval() return
Intervals == 0..MaxInterval

\* sim.schedule(interval, handler, args=(node,)) at time now; by names the
\* provider the interval was drawn from
Schedule(evs, now, interval, handler, node, by) ==
    LET time == now + interval
        k == Cardinality({i \in 1..Len(evs) : evs[i].time <= time})
        ev == [time |-> time, handler |-> handler, node |-> node, by |-> by]
    IN SubSeq(evs, 1, k) \o <<ev>> \o SubSeq(evs, k + 1, Len(evs))

RECURSIVE ScheduleFailures(_, _, _, _)
\* "for sensor in self.network.sensors(): self.schedule_failure(sensor)",
\* intervals[sensor] being the interval drawn for the sensor
ScheduleFailures(sensors, intervals, evs, now) ==
    IF sensors = <<>> THEN evs
    ELSE ScheduleFailures(Tail(sensors), intervals,
            Schedule(evs, now, intervals[Head(sensors)], "failure", Head(sensors),
                     "failure_interval"),
            now)

\* schedule_next_repair that returns without an error when no node has
\* failed, the repair marked as started
ScheduleNextRepairSilent(evs, failed, started, now) ==
    IF failed = <<>>
    THEN {[err |-> "none", events |-> evs, repair_started |-> TRUE]}
    ELSE {[err |-> "none",
           events |-> Schedule(evs, now, interval, "repair_finished", failed[node_index],
                               IF started THEN "cons_repair_interval"
                                          ELSE "repair_interval"),
           repair_started |-> TRUE] :
              node_index \in 1..Len(failed), interval \in Intervals}

\* ModelData.schedule_next_repair: the outcomes of the random choices
ScheduleNextRepair(evs, failed, started, now) ==
    IF failed = <<>>
    THEN {[err |-> "RuntimeError", events |-> evs, repair_started |-> started]}
    ELSE {[err |-> "none",
           events |-> Schedule(evs, now, interval, "repair_finished", failed[node_index],
                               IF started THEN "cons_repair_interval"
                                          ELSE "repair_interval"),
           repair_started |-> TRUE] :
              node_index \in 1..Len(failed), interval \in Intervals}

\* the parameters of simulate_network: a topology, the routing mode and the
\* repair threshold
SimInit ==
    /\ mode \in {STATIC, DYNAMIC}
    /\ ntype \in [1..NumNodes -> {SENSOR_NODE, GATEWAY_NODE}]
    /\ IF mode = STATIC
       THEN connections \in ConnSeqs /\ links = {}
       ELSE connections = <<>> /\ links \in SUBSET Pairs
    /\ exclude = {}
    /\ pc = "params"
    /\ run = [routes |-> <<>>]
    /\ table = EmptyTable
    /\ prevTable = EmptyTable
    /\ builds = 0
    /\ turned_on = << >>
    /\ net_next_hop = EmptyTable
    /\ net_graph = {}
    /\ net_distance = EmptyTable
    /\ err = "none"
    /\ lastOff = None
    /\ NoCall
    /\ failed_nodes = <<>>
    /\ repair_started = FALSE
    /\ num_offline_till_repair \in 1..NumNodes
    /\ events = <<>>
    /\ stime = 0
    /\ num_failed = <<>>
    /\ num_offline = <<>>
    /\ operable = <<>>
    /\ fired = [handler |-> "none"]

\* ModelData.__init__
NewModelData ==
    /\ pc = "params"
    /\ UNCHANGED <<topo, exclude, mode, run, builds, net_next_hop, net_graph,
                   net_distance, err, lastOff, mgrVars, num_offline_till_repair,
                   stime, fired>>
    /\ prevTable' = table
    /\ turned_on' = [a \in DOMAIN CreateDevices(NodeSeq, << >>).devices |-> TRUE]
    /\ failed_nodes' = <<>>
    /\ repair_started' = FALSE
    /\ num_failed' = <<<<stime, 0>>>>
    /\ num_offline' = <<<<stime, Cardinality(GetOfflineNodes)>>>>
    /\ operable' = <<<<stime, 1>>>>
    /\ LET built == RoutingTableFor(OffDevices')
       IN IF built.hung
          THEN pc' = "hung" /\ UNCHANGED <<table, events>>
          ELSE /\ pc' = "running"
               /\ table' = built.table
               /\ \E intervals \in [Sensors -> Intervals] :
                     events' = ScheduleFailures(
                                   SelectSeq(NodeSeq, LAMBDA a : a \in Sensors),
                                   intervals, events, stime)

\* the simulator fires the next event, a failure: ModelData.handle_failure.
\* An exception of network.turn_off leaves the handler and ends the run.
HandleFailure ==
    /\ pc = "running"
    /\ events # <<>>
    /\ Head(events).handler = "failure"
    /\ UNCHANGED <<topo, exclude, mode, run, builds, lastOff, mgrVars,
                   num_offline_till_repair>>
    /\ prevTable' = table
    /\ LET node == Head(events).node
           now == Head(events).time
       IN /\ stime' = now
          /\ fired' = [handler |-> "failure", node |-> node,
                       repair_started |-> repair_started]
          /\ TurnedOff(node)
          /\ IF err' # "none"
             THEN /\ pc' = "crashed"
                  /\ events' = Tail(events)
                  /\ UNCHANGED <<failed_nodes, repair_started, table, num_failed,
                                 num_offline, operable>>
             ELSE LET failed == Append(failed_nodes, node)
                      built == RoutingTableFor(OffDevices')
                      num_offline_nodes == Cardinality(GetOfflineNodes')
                  IN /\ failed_nodes' = failed
                     /\ IF built.hung
                        THEN /\ pc' = "hung"
                             /\ events' = Tail(events)
                             /\ UNCHANGED <<repair_started, table, num_failed,
                                            num_offline, operable>>
                        ELSE /\ pc' = "running"
                             /\ table' = built.table
                             /\ num_failed' = Append(num_failed, <<now, Len(failed)>>)
                             /\ num_offline' =
                                    Append(num_offline, <<now, num_offline_nodes>>)
                             /\ IF num_offline_nodes >= num_offline_till_repair
                                   /\ ~repair_started
                                THEN /\ \E r \in ScheduleNextRepair(Tail(events), failed,
                                                        repair_started, now) :
                                         /\ events' = r.events
                                         /\ repair_started' = r.repair_started
                                     /\ operable' = Append(operable, <<now, 0>>)
                                ELSE /\ events' = Tail(events)
                                     /\ UNCHANGED <<repair_started, operable>>

SimNext ==
    \/ NewModelData
    \/ HandleFailure

\* one run of simulate(ModelData, ...)
SimSpec == SimInit /\ [][SimNext]_vars

\* the same run under the simulator's loop, which goes on taking the next
\* event from the queue and calling its handler as long as there is one
SimSpecFair == SimSpec /\ WF_vars(HandleFailure)

\* model.schedule_next_repair() called on a constructed ModelData, between two
\* events of its run or after the run has ended; a RuntimeError goes to the
\* caller
ScheduleNextRepairCall ==
    /\ pc \in {"running", "crashed"}
    /\ Len(events) <= NodeCount
    /\ \E r \in ScheduleNextRepair(events, failed_nodes, repair_started, stime) :
          /\ err' = r.err
          /\ events' = r.events
          /\ repair_started' = r.repair_started
    /\ call' = [op |-> "schedule_next_repair"]
    /\ UNCHANGED <<topo, exclude, mode, pc, run, table, prevTable, builds, turned_on,
                   net_next_hop, net_graph, net_distance, lastOff, ret, failed_nodes,
                   num_offline_till_repair, stime, num_failed, num_offline, operable,
                   fired>>

CallNext ==
    \/ NewModelData
    \/ HandleFailure
    \/ ScheduleNextRepairCall

\* a run of simulate(ModelData, ...) and calls of schedule_next_repair made on
\* its ModelData
CallSpec == SimInit /\ [][CallNext]_vars

----------------------------------------------------------------------------
\* RoutingManager (senere/network.py), over the _table of its owner.  The
\* lists it returns are modelled as sets: order_by only reorders a result.

Addresses == 1..NumAddr

\* the records handed to add; their gateway, a field that no method of the
\* manager reads, is address 1
RecordSet ==
    {RouteRecord(s, n, 1, d, st) :
        s \in Addresses, n \in Addresses, d \in 0..1, st \in BOOLEAN}

FilterKeys == {"address", "source", "next_hop", "static", "distance"}

\* the keyword arguments of filter: the keys given and their values (a key
\* that is not given has the first value)
FilterArgs ==
    {kw \in [given : SUBSET FilterKeys, address : Addresses, source : Addresses,
             next_hop : Addresses, static : BOOLEAN, distance : 0..1] :
        /\ "address" \notin kw.given => kw.address = 1
        /\ "source" \notin kw.given => kw.source = 1
        /\ "next_hop" \notin kw.given => kw.next_hop = 1
        /\ "static" \notin kw.given => kw.static = FALSE
        /\ "distance" \notin kw.given => kw.distance = 0}

\* RoutingManager.all
AllRecords(t) == {t[a] : a \in DOMAIN t}

\* remove that also drops the records routed through the address
TableRemoveRouted(t, address) ==
    [err |-> "none",
     ret |-> IF address \in DOMAIN t THEN 1 ELSE 0,
     table |-> [b \in {c \in DOMAIN t : c # address /\ t[c].next_hop # address} |-> t[b]]]

\* RoutingManager.remove
TableRemove(t, address) ==
    [err |-> "none",
     ret |-> IF address \in DOMAIN t THEN 1 ELSE 0,
     table |-> [b \in DOMAIN t \ {address} |-> t[b]]]

\* get that answers None for an address without a record
TableGetOrNone(t, address) ==
    [err |-> "none", ret |-> IF address \in DOMAIN t THEN t[address] ELSE None]

\* RoutingManager.get: self.table[address] raises KeyError
TableGet(t, address) ==
    IF address \in DOMAIN t
    THEN [err |-> "none", ret |-> t[address]]
    ELSE [err |-> "KeyError", ret |-> None]

\* RoutingManager.filter.  The address criterion reads r.hext_hop, which a
\* RouteRecord does not have: AttributeError as soon as a record's source is
\* not the target ("or" evaluates its right side).
TableFilter(t, kw) ==
    LET records == AllRecords(t)
        r2 == IF "source" \in kw.given
              THEN {r \in records : r.source = kw.source} ELSE records
        r3 == IF "next_hop" \in kw.given
              THEN {r \in r2 : r.next_hop = kw.next_hop} ELSE r2
        r4 == IF "static" \in kw.given
              THEN {r \in r3 : r.static = kw.static} ELSE r3
        r5 == IF "distance" \in kw.given
              THEN {r \in r4 : r.distance = kw.distance} ELSE r4
    IN IF "address" \in kw.given /\ \E r \in records : r.source # kw.address
       THEN [err |-> "AttributeError", ret |-> {}]
       ELSE [err |-> "none", ret |-> r5]

\* an owner with an empty _table
MgrInit ==
    /\ ntype = << >>
    /\ connections = <<>>
    /\ links = {}
    /\ exclude = {}
    /\ mode = STATIC
    /\ pc = "table"
    /\ run = [routes |-> <<>>]
    /\ table = EmptyTable
    /\ prevTable = EmptyTable
    /\ builds = 0
    /\ turned_on = << >>
    /\ net_next_hop = EmptyTable
    /\ net_graph = {}
    /\ net_distance = EmptyTable
    /\ err = "none"
    /\ lastOff = None
    /\ NoCall
    /\ NoModelData

\* RoutingManager.add(route_record)
Add(route_record) ==
    /\ table' = TableAdd(table, route_record)
    /\ prevTable' = table
    /\ call' = [op |-> "add", arg |-> route_record]
    /\ ret' = None
    /\ err' = "none"
    /\ UNCHANGED <<topo, exclude, mode, pc, run, builds, turned_on, net_next_hop,
                   net_graph, net_distance, lastOff, simVars>>

\* RoutingManager.remove(address)
Remove(address) ==
    /\ LET r == TableRemove(table, address)
       IN table' = r.table /\ ret' = r.ret /\ err' = r.err
    /\ prevTable' = table
    /\ call' = [op |-> "remove", arg |-> address]
    /\ UNCHANGED <<topo, exclude, mode, pc, run, builds, turned_on, net_next_hop,
                   net_graph, net_distance, lastOff, simVars>>

\* RoutingManager.get(address)
Get(address) ==
    /\ LET r == TableGet(table, address)
       IN ret' = r.ret /\ err' = r.err
    /\ prevTable' = table
    /\ call' = [op |-> "get", arg |-> address]
    /\ UNCHANGED <<topo, exclude, mode, pc, run, table, builds, turned_on, net_next_hop,
                   net_graph, net_distance, lastOff, simVars>>

\* RoutingManager.filter(**kwargs)
Filter(kwargs) ==
    /\ LET r == TableFilter(table, kwargs)
       IN ret' = r.ret /\ err' = r.err
    /\ prevTable' = table
    /\ call' = [op |-> "filter", arg |-> kwargs]
    /\ UNCHANGED <<topo, exclude, mode, pc, run, table, builds, turned_on, net_next_hop,
                   net_graph, net_distance, lastOff, simVars>>

MgrNext ==
    \/ \E route_record \in RecordSet : Add(route_record)
    \/ \E address \in Addresses : Remove(address)
    \/ \E address \in Addresses : Get(address)
    \/ \E kwargs \in FilterArgs : Filter(kwargs)

\* a RoutingManager and the calls made on it
MgrSpec == MgrInit /\ [][MgrNext]_vars

----------------------------------------------------------------------------
\* Properties of a finished build.

Done == pc = "done"

Records == {table[a] : a \in DOMAIN table}

SelfRecord(g) == RouteRecord(g, g, g, 0, TRUE)

LiveGateways == {g \in Nodes : ntype[g] = GATEWAY_NODE /\ g \notin exclude}

\* the fixed connection leaving n, or None
ConnOf(n) ==
    IF \E i \in 1..Len(connections) : connections[i][1] = n
    THEN connections[CHOOSE i \in 1..Len(connections) : connections[i][1] = n][2]
    ELSE None

RECURSIVE ChainReachesGateway(_, _, _)
\* following fixed connections from n for at most k hops, through nodes
\* outside excl only, arrives at a gateway outside excl
ChainReachesGateway(n, k, excl) ==
    /\ n \notin excl
    /\ \/ ntype[n] = GATEWAY_NODE
       \/ /\ k > 0
          /\ ConnOf(n) # None
          /\ ChainReachesGateway(ConnOf(n), k - 1, excl)

RECURSIVE RadioReach(_, _)
\* the nodes outside excl joined to a node of S by a path of radio links
\* between nodes outside excl
RadioReach(S, excl) ==
    LET more == {b \in Nodes \ excl : \E a \in S : {a, b} \in links}
    IN IF more \subseteq S THEN S ELSE RadioReach(S \cup more, excl)

\* C1: after a rebuild every record whose next_hop is not its source has
\* distance 1 + the distance of the record the table holds for its next_hop.
C1_DistanceIsHopPlusOne ==
    Done => \A r \in Records :
        r.next_hop # r.source =>
            /\ r.next_hop \in DOMAIN table
            /\ r.distance = 1 + table[r.next_hop].distance

C1_Witness ==
    /\ Done
    /\ \E r \in Records : r.distance = 2 /\ table[r.next_hop].distance = 1

\* C2: every non-excluded gateway g holds exactly the record (g, g, g, 0, true)
\* after a build by either builder, for every topology.
C2_GatewaySelfRecord ==
    Done => \A g \in LiveGateways : g \in DOMAIN table /\ table[g] = SelfRecord(g)

\* C3: no record of the route set built names an excluded address as its
\* source, its next_hop or its gateway.
C3_ExcludedNeverNamed ==
    Done => \A i \in 1..Len(run.routes) :
        /\ run.routes[i].source \notin exclude
        /\ run.routes[i].next_hop \notin exclude
        /\ run.routes[i].gateway \notin exclude

C3_Witness ==
    /\ Done
    /\ exclude # {}
    /\ \E i \in 1..Len(run.routes) : run.routes[i].distance > 0
    /\ \E a \in exclude : ntype[a] = SENSOR_NODE /\
          (ConnOf(a) \in LiveGateways \/ \E g \in LiveGateways : {a, g} \in links)

\* C4: after a rebuild the next_hop of every record is the source of a record
\* of the table, and a record whose next_hop is its own source is a gateway's
\* self-record.
C4_NoDanglingHop ==
    Done => \A r \in Records :
        /\ r.next_hop \in DOMAIN table
        /\ r.next_hop = r.source =>
              ntype[r.source] = GATEWAY_NODE /\ r = SelfRecord(r.source)

C4_Witness ==
    /\ Done
    /\ \E r \in Records : r.next_hop # r.source
    /\ \E r \in Records : r.next_hop = r.source

\* C5: in static mode a non-excluded node has a record exactly when the chain
\* of fixed connections from it, through non-excluded nodes, reaches a
\* non-excluded gateway.
C5_StaticRecordIffChain ==
    (Done /\ mode = STATIC) =>
        \A n \in Nodes \ exclude :
            n \in DOMAIN table <=> ChainReachesGateway(n, NodeCount, exclude)

\* a routed sensor, a sensor with no connection, and a connection cycle
C5_Witness ==
    /\ Done /\ mode = STATIC
    /\ \E n \in DOMAIN table : ntype[n] = SENSOR_NODE
    /\ \E n \in Nodes \ exclude :
          /\ n \notin DOMAIN table
          /\ ConnOf(n) # None
          /\ ConnOf(n) \notin exclude
          /\ ConnOf(ConnOf(n)) = n

\* C6: in dynamic mode a non-excluded node has a record exactly when a path of
\* radio links between non-excluded nodes joins it to a non-excluded gateway.
C6_DynamicRecordIffConnected ==
    (Done /\ mode = DYNAMIC) =>
        \A n \in Nodes \ exclude :
            n \in DOMAIN table <=> n \in RadioReach(LiveGateways, exclude)

\* a sensor two hops from the gateway, with an excluded sensor between them,
\* is routed over another two-hop path that avoids the excluded sensor
C6_Witness ==
    /\ Done /\ mode = DYNAMIC
    /\ \E n \in DOMAIN table, x \in exclude, g \in LiveGateways :
          /\ ntype[n] = SENSOR_NODE
          /\ ntype[x] = SENSOR_NODE
          /\ {n, x} \in links
          /\ {x, g} \in links
          /\ table[n].distance = 2

\* C7: static route construction terminates.  A visiting entry's hop count is
\* the length of a walk back along fixed connections from a gateway; a count
\* of NodeCount means the walk repeats a node, which (one outgoing connection
\* per node) puts the gateway on a cycle that feeds the queue for ever.
C7_StaticTerminates ==
    pc = "static" =>
        \A i \in 1..Len(run.visiting) : run.visiting[i][3] < NodeCount

C9_NoGatewayEmptyRoutes ==
    LiveGateways = {} =>
        /\ pc = "static" => run.visiting = <<>>
        /\ pc = "dynamic" => run.queue = <<>>
        /\ pc \in {"static", "dynamic", "done"} => run.routes = <<>>
        /\ Done => table = EmptyTable

\* every gateway is excluded, and a sensor is wired or linked to one of them
C9_Witness ==
    /\ Done
    /\ LiveGateways = {}
    /\ \E g \in exclude : ntype[g] = GATEWAY_NODE /\
          \E n \in Nodes \ exclude : ConnOf(n) = g \/ {n, g} \in links

\* every route of sensor s to a gateway passes through a: the fixed chain
\* from s (static mode), or every radio path from s (dynamic mode)
CutOffBy(s, a) ==
    /\ s # a
    /\ IF mode = STATIC
       THEN ~ChainReachesGateway(s, NodeCount, {a})
       ELSE s \notin RadioReach(Gateways, {a})

\* C10: after turn_off(a) on a sensor a, a is off, and once the table is
\* rebuilt neither a nor any sensor all of whose routes pass through a has a
\* record.
C10_CascadingFailure ==
    lastOff # None =>
        /\ ~turned_on[lastOff]
        /\ pc = "done" =>
              /\ lastOff \notin DOMAIN table
              /\ \A s \in Sensors : CutOffBy(s, lastOff) => s \notin DOMAIN table


\* the sources of the records the route builder of the mode returns when run
\* with the exclusion set excl
BuiltSources(excl) ==
    LET final == IF mode = STATIC
                 THEN RunStatic(StaticStart(excl), excl)
                 ELSE RunDynamic(DynStart(excl))
    IN {final.routes[i].source : i \in 1..Len(final.routes)}

C12_OfflineAreUnrouted ==
    pc = "done" => GetOfflineNodes = {s \in Sensors : s \notin DOMAIN table}


\* C13: turn_on of one address or of a collection of addresses only marks
\* the named sensors on: the table, the distances, the offline set and the
\* flag of every other device are as before the call.
C13_TurnOnOnlyMarks ==
    [][\A target \in SUBSET Nodes :
          TurnOn(target) =>
              /\ table' = table
              /\ net_distance' = net_distance
              /\ GetOfflineNodes' = GetOfflineNodes
              /\ \A a \in Nodes : turned_on'[a] = (turned_on[a] \/ a \in target)]_vars

\* C14: every gateway is on in every state; every sensor is on at
\* construction and its flag changes only in a turn_off or turn_on that names
\* it.
C14_GatewaysOnSensorsByCall ==
    /\ \A a \in Nodes : turned_on[a]
    /\ [](\A g \in Gateways : turned_on[g])
    /\ [][\A a \in Nodes :
             turned_on'[a] # turned_on[a] =>
                 \/ TurnOff(a) /\ ~turned_on'[a]
                 \/ \E target \in SUBSET Nodes :
                       a \in target /\ TurnOn(target) /\ turned_on'[a]]_vars

\* turn_off and turn_on have been called on a gateway, which raised, and a
\* sensor is off
C14_Witness ==
    /\ err = "AttributeError"
    /\ Gateways # {}
    /\ \E s \in Sensors : ~turned_on[s]


\* the records of prevTable and table agree for every source but address
SameButFor(address) ==
    \A b \in (DOMAIN table \cup DOMAIN prevTable) \ {address} :
        /\ b \in DOMAIN table
        /\ b \in DOMAIN prevTable
        /\ table[b] = prevTable[b]

\* C15: after any sequence of add and remove calls the table holds at most one
\* record per source, filed under that source; after add(r) the record of
\* r.source is r, whatever record the source had, and the records of the other
\* sources are as before.
C15_OneRecordPerSource ==
    /\ \A a \in DOMAIN table : table[a].source = a
    /\ call.op = "add" =>
          /\ call.arg.source \in DOMAIN table
          /\ table[call.arg.source] = call.arg
          /\ SameButFor(call.arg.source)

\* add has overwritten another record of the source, next to a second source
C15_Witness ==
    /\ call.op = "add"
    /\ call.arg.source \in DOMAIN prevTable
    /\ prevTable[call.arg.source] # call.arg
    /\ DOMAIN table # {call.arg.source}

\* C16: remove(address) never fails: it returns 1 and deletes the record when
\* the source has one, returns 0 and leaves the table as it is when it has
\* none, and leaves the records of the other sources as they are.
C16_RemoveNeverFails ==
    call.op = "remove" =>
        /\ err = "none"
        /\ call.arg \notin DOMAIN table
        /\ IF call.arg \in DOMAIN prevTable THEN ret = 1 ELSE ret = 0 /\ table = prevTable
        /\ SameButFor(call.arg)

\* a record is removed whose source is the next hop of the record that stays
C16_Witness ==
    /\ call.op = "remove"
    /\ ret = 1
    /\ \E b \in DOMAIN table : table[b].next_hop = call.arg

\* C17: get(address) returns the record of the source when it has one and
\* raises the address-not-found error (KeyError) when it has none; the table is
\* as before.
C17_GetOrFail ==
    call.op = "get" =>
        /\ table = prevTable
        /\ IF call.arg \in DOMAIN table
           THEN err = "none" /\ ret = table[call.arg]
           ELSE err = "KeyError"

\* get has raised on a table that holds a record of another source
C17_Witness ==
    /\ call.op = "get"
    /\ err = "KeyError"
    /\ table # EmptyTable

\* the record satisfies every criterion given; the address criterion is
\* satisfied by the source or the next hop
Matches(r, kw) ==
    /\ "address" \in kw.given => (r.source = kw.address \/ r.next_hop = kw.address)
    /\ "source" \in kw.given => r.source = kw.source
    /\ "next_hop" \in kw.given => r.next_hop = kw.next_hop
    /\ "static" \in kw.given => r.static = kw.static
    /\ "distance" \in kw.given => r.distance = kw.distance

\* C18: filter returns exactly the records that satisfy every criterion given,
\* and returns for every table and every address value.
C18_FilterConjunctive ==
    call.op = "filter" =>
        /\ err = "none"
        /\ ret = {r \in AllRecords(table) : Matches(r, call.arg)}


\* C19: building the devices from a topology with a node that is neither a
\* sensor nor a gateway fails with the unrecognized-node-type error (ValueError)
\* and leaves no devices, not those of the nodes before it either; from sensor
\* and gateway nodes only it yields one device per node, of the node's kind.
C19_UnrecognizedTypeFails ==
    pc # "topology" =>
        IF \E a \in Nodes : ntype[a] \notin {SENSOR_NODE, GATEWAY_NODE}
        THEN pc = "failed" /\ err = "ValueError" /\ turned_on = << >>
                /\ run.devices = << >>
        ELSE /\ pc = "new" /\ err = "none"
             /\ DOMAIN turned_on = Nodes
             /\ DOMAIN run.devices = Nodes
             /\ \A a \in Nodes :
                   /\ turned_on[a]
                   /\ run.devices[a] = "Gateway" <=> ntype[a] = GATEWAY_NODE
                   /\ run.devices[a] = "Sensor" <=> ntype[a] = SENSOR_NODE

\* the construction has failed on the last node, after a sensor and a gateway
C19_Witness ==
    /\ pc = "failed"
    /\ ntype[1] = SENSOR_NODE
    /\ ntype[2] = GATEWAY_NODE
    /\ ntype[NumNodes] = UNKNOWN_NODE


Pending(handler) == {i \in 1..Len(events) : events[i].handler = handler}

\* C23: after ModelData.__init__ the table is the one the route builder of
\* the run's mode gives with nothing excluded, failed_nodes is empty, no
\* repair is in progress, every node of type sensor has exactly one pending
\* failure event and no other event is pending.
C23_InitialisedScheduler ==
    (pc = "running" /\ fired.handler = "none") =>
        /\ table = RoutingTableFor({}).table
        /\ failed_nodes = <<>>
        /\ ~repair_started
        /\ \A a \in Nodes :
              Cardinality({i \in Pending("failure") : events[i].node = a}) =
                  IF ntype[a] = SENSOR_NODE THEN 1 ELSE 0
        /\ Pending("failure") = 1..Len(events)

C23_Witness ==
    /\ pc = "running"
    /\ fired.handler = "none"
    /\ Cardinality(Pending("failure")) = 2
    /\ \E g \in Nodes : ntype[g] = GATEWAY_NODE
    /\ \E a \in DOMAIN table : ntype[a] = SENSOR_NODE
    /\ events[1].time # events[2].time

\* C24: with at least one sensor in the topology, after the initialisation
\* and after every handler the run has not ended and a failure or a
\* repair_finished event is pending.
C24_NoTerminalState ==
    (pc \notin {"params", "hung"} /\ Sensors # {}) =>
        /\ pc = "running"
        /\ Pending("failure") \cup Pending("repair_finished") # {}

C26_EmptyRepairFails ==
    [][(ScheduleNextRepairCall /\ failed_nodes = <<>>) =>
          /\ err' = "RuntimeError"
          /\ events' = events
          /\ repair_started' = repair_started]_vars

C26_Witness ==
    /\ call.op = "schedule_next_repair"
    /\ err = "RuntimeError"
    /\ failed_nodes = <<>>
    /\ Pending("failure") # {}
    /\ Pending("repair_finished") = {}
    /\ ~repair_started

\* the times of the records of a trace never go back
NonDecreasing(trace) ==
    \A i \in 1..Len(trace), j \in 1..Len(trace) : i < j => trace[i][1] <= trace[j][1]

TimesEnqueued(n) ==
    Cardinality({i \in 1..Len(run.visiting) : run.visiting[i][1] = n}) +
    Cardinality({i \in 1..Len(run.routes) : run.routes[i].source = n})

\* C28: at every point of a static build (each node has at most one outgoing
\* connection) no node has been enqueued more than once, so the route list
\* never holds two records of one source.
C28_StaticEnqueuedOnce ==
    (mode = STATIC /\ pc \in {"static", "done"}) =>
        \A n \in Nodes \ exclude : TimesEnqueued(n) <= 1

\* the neighbours of node that are visited and have a finite distance
VisitedNeighbours(st, node) ==
    {v \in Range(st.neighbourhood[node]) :
        st.mark[v] = VISITED /\ st.distance[v] # Inf}

\* C29: in a dynamic build the queue never holds a node twice nor a node that
\* has been dequeued; the node an iteration of the loop dequeues has a visited
\* neighbour of finite distance, had no record, and gets exactly one, whose
\* next_hop is a visited neighbour of finite distance that no visited
\* neighbour beats and whose distance is one more.
C29_DynamicDequeue ==
    [][/\ pc' = "dynamic" =>
             \A i \in 1..Len(run'.queue) :
                /\ run'.mark[run'.queue[i]] = QUEUED
                /\ \A j \in 1..Len(run'.queue) : run'.queue[i] = run'.queue[j] => i = j
                /\ \A k \in 1..Len(run'.routes) : run'.routes[k].source # run'.queue[i]
       /\ DynStep =>
             LET node == Head(run.queue)
                 rec == run'.routes[Len(run'.routes)]
             IN /\ VisitedNeighbours(run, node) # {}
                /\ \A k \in 1..Len(run.routes) : run.routes[k].source # node
                /\ Len(run'.routes) = Len(run.routes) + 1
                /\ rec.source = node
                /\ rec.next_hop \in VisitedNeighbours(run, node)
                /\ \A v \in VisitedNeighbours(run, node) :
                      ~Less(run.distance[v], run.distance[rec.next_hop])
                /\ rec.distance = run.distance[rec.next_hop] + 1
                /\ run'.mark[node] = VISITED
      ]_vars

\* a node was dequeued that had a visited neighbour and, earlier in its list,
\* a neighbour still queued
C29_Witness ==
    /\ pc = "dynamic"
    /\ \E k \in 1..Len(run.routes) :
          LET rec == run.routes[k]
              nb == run.neighbourhood[rec.source]
          IN /\ ~rec.static
             /\ \E i \in 1..Len(nb), j \in 1..Len(nb) :
                   /\ i < j
                   /\ nb[j] = rec.next_hop
                   /\ run.mark[nb[i]] = QUEUED

RECURSIVE Within(_, _, _)
\* the nodes outside excl at most k radio hops, through nodes outside excl,
\* from a node of S
Within(S, k, excl) ==
    IF k = 0 THEN S \ excl
    ELSE LET W == Within(S, k - 1, excl)
         IN W \cup {b \in Nodes \ excl : \E a \in W : {a, b} \in links}

\* node a is exactly k hops from the nearest node of S
HopsFrom(a, S, k) ==
    /\ a \in Within(S, k, exclude)
    /\ k > 0 => a \notin Within(S, k - 1, exclude)

\* C30: the distance of every record a dynamic build emits is the least
\* number of radio hops, through non-excluded nodes, from its source to a
\* non-excluded gateway, and its gateway is a non-excluded gateway that many
\* hops away.
C30_DynamicShortestHops ==
    (Done /\ mode = DYNAMIC) =>
        \A i \in 1..Len(run.routes) :
            LET rec == run.routes[i]
            IN /\ rec.distance \in 0..NodeCount
               /\ HopsFrom(rec.source, LiveGateways, rec.distance)
               /\ rec.gateway \in LiveGateways
               /\ HopsFrom(rec.source, {rec.gateway}, rec.distance)

\* a sensor joined to two gateways is attached to the nearer one
C30_Witness ==
    /\ Done /\ mode = DYNAMIC
    /\ \E s \in DOMAIN table, g \in LiveGateways :
          /\ ntype[s] = SENSOR_NODE
          /\ table[s].gateway # g
          /\ s \in RadioReach({g}, exclude)
          /\ ~\E k \in 0..table[s].distance : s \in Within({g}, k, exclude)

RECURSIVE Walk(_, _)
\* the node k next_hop pointers of the table away from a, or None when a
\* node on the way has no record
Walk(a, k) ==
    IF k = 0 THEN a
    ELSE IF a \in DOMAIN table THEN Walk(table[a].next_hop, k - 1)
    ELSE None

\* C31: after a build by either builder, the gateway of every record emitted
\* is a non-excluded node of type gateway and is the gateway of the record
\* the table holds for its next_hop; the next_hop pointers lead from the source
\* to the self-record of that gateway in exactly distance steps, over distinct
\* nodes.
C31_GatewayAndPath ==
    Done =>
        \A i \in 1..Len(run.routes) :
            LET rec == run.routes[i]
                path == [k \in 0..rec.distance |->
                            IF k = 0 THEN rec.source ELSE Walk(rec.next_hop, k - 1)]
            IN /\ rec.gateway \in LiveGateways
               /\ rec.next_hop \in DOMAIN table
               /\ table[rec.next_hop].gateway = rec.gateway
               /\ path[rec.distance] = rec.gateway
               /\ table[rec.gateway] = SelfRecord(rec.gateway)
               /\ \A j \in 0..rec.distance, k \in 0..rec.distance :
                     path[j] = path[k] => j = k

\* The places of failed_nodes that hold node a.
PlacesInFailed(a) == {i \in 1..Len(failed_nodes) : failed_nodes[i] = a}

\* The pending failure events of node a.
PendingFailures(a) == {i \in Pending("failure") : events[i].node = a}

\* C33: in every state of the scheduler, each sensor is either on, absent
\* from failed_nodes and awaited by exactly one pending failure event, or
\* off, present exactly once in failed_nodes and awaited by no pending
\* failure event.
C33_SensorOnOrFailed ==
    pc \in {"running", "crashed"} =>
        \A a \in Sensors :
            \/ /\ turned_on[a]
               /\ PlacesInFailed(a) = {}
               /\ Cardinality(PendingFailures(a)) = 1
            \/ /\ ~turned_on[a]
               /\ Cardinality(PlacesInFailed(a)) = 1
               /\ PendingFailures(a) = {}

C40_InitialRecords ==
    (pc = "running" /\ fired.handler = "none") =>
        /\ num_failed = <<<<0, 0>>>>
        /\ operable = <<<<0, 1>>>>
        /\ num_offline = <<<<0, Cardinality(Sensors \ DOMAIN table)>>>>

\* every sensor is the source of a fixed connection
EverySensorConnected ==
    \A a \in Sensors : \E i \in 1..Len(connections) : connections[i][1] = a

\* C39: in static mode, when every sensor has a fixed connection and connect
\* has run, after any turn_off and turn_on calls on sensors the static build
\* with the off sensors excluded returns, and the sensors it leaves without
\* a record are exactly the nodes get_offline_nodes lists.
C39_SameOfflineSet ==
    (mode = STATIC /\ EverySensorConnected /\ net_distance # EmptyTable) =>
        LET built == RoutingTableFor(OffDevices)
        IN /\ ~built.hung
           /\ GetOfflineNodes = Sensors \ DOMAIN built.table
====
